---- MODULE Spec2Model ----
(***************************************************************************)
(* HttpClient of packages/snap/src/api/http.ts: the priority-ordered       *)
(* transform pipeline (addTransform, _transform), the request builders     *)
(* (httpGet, httpPost) and the retry loop (_requestAndRetry).              *)
(*                                                                         *)
(* One action is one run of code between two suspension points (an await   *)
(* or a promise callback).  A call instance (one httpGet or httpPost call) *)
(* keeps its locals in req[r]; hist[r] and added record what happened and  *)
(* are read by the properties only.                                        *)
(***************************************************************************)
EXTENDS Integers, Sequences, FiniteSets, TLC

\* ------------------------------------------------------------- bounds
MaxRetry == 2
MaxPipeline == 3
MaxPriority == 2
MaxParams == 2

Requests == {"r1", "r2"}
Transforms == {"f", "g", "h"}
Priorities == -1..MaxPriority
RetryBudgets == 0..MaxRetry

VARIABLES
  retryTimes,    \* this._retryTimes
  credentials,   \* this._credentials ("" when undefined)
  fetchOptions,  \* this._fetchOptions
  callOptions,   \* this._callOptions
  host,          \* this._host
  fetchImpl,     \* this._fetch: where the transport primitive comes from
  env,           \* the hosting environment: the globals window, global and self
  options,       \* the options object the constructor is given
  client,        \* whether the constructor has run, and what it raised
  pipeline,      \* this._pipeline: the transform objects, in order
  priority,      \* the priority property of each transform object that has one
  req,           \* the locals of each call instance
  hist,          \* per call instance: transport calls, their outcomes, transform invocations
  added          \* the transforms passed to addTransform, in call order

vars ==
  <<retryTimes, credentials, fetchOptions, callOptions, host, fetchImpl, env, options, client,
    pipeline, priority, req, hist, added>>
config == <<retryTimes, credentials, fetchOptions, callOptions, host, fetchImpl, env, options, client>>

\* ------------------------------------------------------------- values
Last(s) == s[Len(s)]

\* An object literal is a function from its own keys; {...a, ...b} keeps b's value
\* for every key b has.
EmptyBag == [k \in {} |-> k]
Merge(a, b) == [k \in DOMAIN a \cup DOMAIN b |-> IF k \in DOMAIN b THEN b[k] ELSE a[k]]

\* What the server may answer: Response.ok, status, statusText and the body text.
Ok200 == [completed |-> TRUE, ok |-> TRUE, status |-> 200, statusText |-> "OK", body |-> "fine"]
Err500 == [completed |-> TRUE, ok |-> FALSE, status |-> 500, statusText |-> "Internal Server Error", body |-> "boom"]
Err503 == [completed |-> TRUE, ok |-> FALSE, status |-> 503, statusText |-> "Service Unavailable", body |-> "busy"]
Responses == {Ok200, Err500, Err503}
\* The outcome of a transport call that raised instead of answering.
Thrown == [completed |-> FALSE, ok |-> FALSE, status |-> 0, statusText |-> "", body |-> ""]
NoResponse == [completed |-> FALSE, ok |-> FALSE, status |-> -1, statusText |-> "", body |-> ""]

\* The errors a call instance can end with.
NoError == [kind |-> "none", status |-> 0, statusText |-> "", body |-> ""]
\* `Server returned an error: Code: <status> (<statusText>) Body: <text>`
ErrorMessage(response, responseText) ==
  [kind |-> "ServerError", status |-> response.status, statusText |-> response.statusText, body |-> responseText]
\* `AgentError: Exceeded configured limit of N retry attempts...`
ExceededError == [kind |-> "Exceeded", status |-> retryTimes, statusText |-> "", body |-> ""]
\* whatever the transport primitive raised
TransportFailure == [kind |-> "TransportFailure", status |-> 0, statusText |-> "", body |-> ""]
\* whatever transform fn raised
TransformFailure(fn) == [kind |-> "TransformFailure", status |-> 0, statusText |-> "", body |-> fn]

\* ------------------------------------------------------------- the pipeline
\* (x.priority || 0)
PriorityOf(x) == IF x \in DOMAIN priority THEN priority[x] ELSE 0

\* Variant: the first entry of lower or equal priority.
FindIndexLowerOrEqual(p) ==
  LET lower == {j \in 1..Len(pipeline) : PriorityOf(pipeline[j]) <= p}
  IN  IF lower = {} THEN -1 ELSE (CHOOSE j \in lower : \A k \in lower : j <= k) - 1

\* this._pipeline.findIndex(x => (x.priority || 0) < priority): the 0-based index of
\* the first entry of lower priority, -1 when there is none.
FindIndex(p) ==
  LET lower == {j \in 1..Len(pipeline) : PriorityOf(pipeline[j]) < p}
  IN  IF lower = {} THEN -1 ELSE (CHOOSE j \in lower : \A k \in lower : j <= k) - 1

\* splice(start, 0, item)
Splice(s, start, item) == SubSeq(s, 1, start) \o <<item>> \o SubSeq(s, start + 1, Len(s))

\* Object.assign(fn, { priority }): fn is the object the pipeline entries refer to.
Assign(fn, p) == [x \in DOMAIN priority \cup {fn} |-> IF x = fn THEN p ELSE priority[x]]

\* addTransform(fn, priority)
AddTransform(fn, p) ==
  /\ Len(pipeline) < MaxPipeline
  /\ LET i == FindIndex(p)
     IN  pipeline' = Splice(pipeline, IF i >= 0 THEN i ELSE Len(pipeline), fn)
  /\ priority' = Assign(fn, p)
  /\ added' = Append(added, fn)
  /\ UNCHANGED <<config, req, hist>>

\* addTransform(fn): priority = fn.priority || 0
AddTransformDefault(fn) == AddTransform(fn, PriorityOf(fn))

\* ------------------------------------------------------------- request building
Endpoints == {"/status", "/tx"}
Bodies == {<<"tx">>}

\* The caller's parameter object of httpGet: its own properties in creation order.
ParamKeys == {"1", "2", "a", "b"}
ParamValues == {1, 2}
\* Keys that are array indices, with their numeric value.
IndexKeys == {"1", "2"}
KeyNumber == [k \in IndexKeys |-> IF k = "1" THEN 1 ELSE 2]
ParamObjects ==
  {o \in UNION {[1..n -> [key : ParamKeys, value : ParamValues]] : n \in 0..MaxParams} :
     \A i, j \in 1..Len(o) : i # j => o[i].key # o[j].key}

\* `${v}` of a number
TemplateString(v) == IF v = 1 THEN "1" ELSE "2"

\* for (const id in body): array-index keys in ascending numeric order, then the
\* other string keys in creation order.
RECURSIVE Ascending(_)
Ascending(S) ==
  IF S = {} THEN <<>>
  ELSE LET m == CHOOSE e \in S : \A o \in S : KeyNumber[e.key] <= KeyNumber[o.key]
       IN  <<m>> \o Ascending(S \ {m})
IsIndexEntry(e) == e.key \in IndexKeys
IsNameEntry(e) == e.key \notin IndexKeys
\* Variant: every key in creation order.
ForInCreationOrder(body) == body
ForIn(body) ==
  Ascending({body[i] : i \in {j \in 1..Len(body) : IsIndexEntry(body[j])}})
    \o SelectSeq(body, IsNameEntry)

\* The loop of httpGet over the enumerated entries, c counting them.
RECURSIVE QueryLoop(_, _, _)
QueryLoop(url, c, entries) ==
  IF entries = <<>> THEN url
  ELSE LET e == Head(entries)
           sep == IF c = 0 THEN "?" ELSE "&"
       IN  QueryLoop(url \o <<sep>> \o <<e.key, "=", TemplateString(e.value)>>, c + 1, Tail(entries))

\* '' + new URL(url, this._host) for a path-absolute url
Resolve(url) == <<host>> \o url

\* 'Basic ' + Buffer.from(this._credentials, 'base64')
BasicAuth == <<"Basic", "Buffer.from-base64", credentials>>
AuthHeader == IF credentials # "" THEN {<<"Authorization", BasicAuth>>} ELSE {}
\* the headers object httpGet builds
GetHeaders == AuthHeader
\* payload.request of httpPost
PostRequest == [method |-> "POST", headers |-> {<<"Content-Type", <<"application/json">>>>} \cup AuthHeader]

\* The closure handed to _requestAndRetry, evaluated at each attempt.
RequestCall(q) ==
  IF q.kind = "GET"
  THEN [url |-> Resolve(q.url), init |-> Merge([headers |-> q.headers], fetchOptions)]
  ELSE [url |-> Resolve(<<q.endpoint>>),
        init |-> Merge(Merge(callOptions, q.payload.request), [body |-> q.transformed.body])]

\* ------------------------------------------------------------- call instances
NoEnvelope == [request |-> [method |-> "", headers |-> {}], endpoint |-> "", body |-> <<>>]
Idle ==
  [pc |-> "idle", kind |-> "none", endpoint |-> "", url |-> <<>>, headers |-> {},
   payload |-> NoEnvelope, chain |-> <<>>, env |-> NoEnvelope, transformed |-> NoEnvelope,
   tries |-> 0, response |-> NoResponse, result |-> NoResponse, error |-> NoError]
\* What is recorded of a call instance: the transport calls it made and how each
\* ended, the messages given to console.warn, the transforms called for it and what
\* each resolved to, the pipeline as it was when the instance was created, and the
\* parameter object httpGet was given.
NoHistory ==
  [calls |-> <<>>, outcomes |-> <<>>, warnings |-> <<>>, invoked |-> <<>>, resolved |-> <<>>,
   snapshot |-> <<>>, params |-> <<>>]

\* Variant: a retry issues its transport call twice, racing two attempts.
RequestAndRetryRacing(r, q, h, tries) ==
  /\ req' = [req EXCEPT ![r] = [q EXCEPT !.pc = "fetch", !.tries = tries]]
  /\ hist' = [hist EXCEPT ![r] =
                [h EXCEPT !.calls = IF tries > 0 THEN Append(Append(@, RequestCall(q)), RequestCall(q))
                                    ELSE Append(@, RequestCall(q))]]

\* _requestAndRetry(request, tries) up to `await request()`: q holds the locals of
\* call instance r as they are when it is entered, h what is recorded of it.
RequestAndRetry(r, q, h, tries) ==
  IF tries > retryTimes /\ retryTimes # 0
  THEN /\ req' = [req EXCEPT ![r] = [q EXCEPT !.pc = "failed", !.tries = tries, !.error = ExceededError]]
       /\ hist' = [hist EXCEPT ![r] = h]
  ELSE /\ req' = [req EXCEPT ![r] = [q EXCEPT !.pc = "fetch", !.tries = tries]]
       /\ hist' = [hist EXCEPT ![r] = [h EXCEPT !.calls = Append(@, RequestCall(q))]]

\* Variant: httpGet sends its request through the pipeline as httpPost does.
HttpGetTransformed(r, endpoint, body) ==
  /\ req[r].pc = "idle"
  /\ LET url == QueryLoop(<<endpoint>>, 0, ForIn(body))
         payload == [request |-> [method |-> "GET", headers |-> GetHeaders], endpoint |-> endpoint, body |-> <<>>]
     IN  req' = [req EXCEPT ![r] = [@ EXCEPT !.pc = "transform", !.kind = "GET", !.endpoint = endpoint,
                                             !.url = url, !.headers = GetHeaders,
                                             !.payload = payload, !.env = payload, !.chain = pipeline]]
  /\ hist' = [hist EXCEPT ![r].snapshot = pipeline, ![r].params = body]
  /\ UNCHANGED <<config, pipeline, priority, added>>

\* httpGet(endpoint, body) up to the first transport call
HttpGet(r, endpoint, body) ==
  /\ req[r].pc = "idle"
  /\ LET url == QueryLoop(<<endpoint>>, 0, ForIn(body))
         q == [req[r] EXCEPT !.kind = "GET", !.endpoint = endpoint, !.url = url, !.headers = GetHeaders]
     IN  RequestAndRetry(r, q, [hist[r] EXCEPT !.snapshot = pipeline, !.params = body], 0)
  /\ UNCHANGED <<config, pipeline, priority, added>>

\* httpPost(endpoint, body) up to `await this._transform(payload)`; _transform
\* chains one step per entry of the pipeline as it is now.
HttpPost(r, endpoint, body) ==
  /\ req[r].pc = "idle"
  /\ LET payload == [request |-> PostRequest, endpoint |-> endpoint, body |-> body]
     IN  req' = [req EXCEPT ![r] = [@ EXCEPT !.pc = "transform", !.kind = "POST", !.endpoint = endpoint,
                                             !.payload = payload, !.env = payload, !.chain = pipeline]]
  /\ hist' = [hist EXCEPT ![r].snapshot = pipeline]
  /\ UNCHANGED <<config, pipeline, priority, added>>

\* What a transform may resolve to: a request of its own, or nothing.
Stamped(fn, r0) ==
  [nothing |-> FALSE,
   value |-> [request |-> [method |-> r0.request.method, headers |-> r0.request.headers \cup {<<"X-Transform", <<fn>>>>}],
              endpoint |-> r0.endpoint, body |-> Append(r0.body, fn)]]
Nothing == [nothing |-> TRUE, value |-> NoEnvelope]
\* Variant: the resolved value taken as it is, also when it is nothing.
OrElseDropped(r2, r0) == r2.value

\* r2 || r
OrElse(r2, r0) == IF r2.nothing THEN r0 ELSE r2.value

\* Variant: each step of the chain reads the pipeline as it is when the step runs.
TransformInvokeLive(r) ==
  /\ req[r].pc = "transform"
  /\ req[r].chain # <<>>
  /\ LET live == SubSeq(pipeline, Len(hist[r].resolved) + 1, Len(pipeline))
     IN  /\ req' = [req EXCEPT ![r].pc = "pending", ![r].chain = live]
         /\ hist' = [hist EXCEPT ![r].invoked = Append(@, [fn |-> Head(live), received |-> req[r].env])]
  /\ UNCHANGED <<config, pipeline, priority, added>>

\* p.then(r => fn(r)...): the next transform of the chain is called with the
\* request the chain has produced so far.
TransformInvoke(r) ==
  /\ req[r].pc = "transform"
  /\ req[r].chain # <<>>
  /\ req' = [req EXCEPT ![r].pc = "pending"]
  /\ hist' = [hist EXCEPT ![r].invoked = Append(@, [fn |-> Head(req[r].chain), received |-> req[r].env])]
  /\ UNCHANGED <<config, pipeline, priority, added>>

\* Variant: applying a transform takes it off the client's pipeline.
TransformResolveConsuming(r, r2) ==
  /\ req[r].pc = "pending"
  /\ req' = [req EXCEPT ![r].pc = "transform", ![r].env = OrElse(r2, @), ![r].chain = Tail(@)]
  /\ hist' = [hist EXCEPT ![r].resolved = Append(@, r2)]
  /\ pipeline' = IF pipeline # <<>> THEN Tail(pipeline) ELSE pipeline
  /\ UNCHANGED <<config, priority, added>>

\* fn(r).then(r2 => r2 || r): the transform resolved to r2
TransformResolve(r, r2) ==
  /\ req[r].pc = "pending"
  /\ req' = [req EXCEPT ![r].pc = "transform", ![r].env = OrElse(r2, @), ![r].chain = Tail(@)]
  /\ hist' = [hist EXCEPT ![r].resolved = Append(@, r2)]
  /\ UNCHANGED <<config, pipeline, priority, added>>

\* Variant: a rejection is swallowed and the chain goes on with the next transform.
TransformRejectSwallowed(r) ==
  /\ req[r].pc = "pending"
  /\ req' = [req EXCEPT ![r].pc = "transform", ![r].chain = Tail(@)]
  /\ UNCHANGED <<config, pipeline, priority, added, hist>>

\* the transform rejected: the chain and the await in httpPost reject with it
TransformReject(r) ==
  /\ req[r].pc = "pending"
  /\ req' = [req EXCEPT ![r].pc = "failed", ![r].error = TransformFailure(Head(req[r].chain))]
  /\ UNCHANGED <<config, pipeline, priority, added, hist>>

\* httpPost after `await this._transform(payload)`, up to the first transport call
PostSend(r) ==
  /\ req[r].pc = "transform"
  /\ req[r].chain = <<>>
  /\ RequestAndRetry(r, [req[r] EXCEPT !.transformed = req[r].env], hist[r], 0)
  /\ UNCHANGED <<config, pipeline, priority, added>>

\* _requestAndRetry after `await request()`: an ok response is returned, another
\* one is read (`await response.clone().text()`).
Respond(r, response) ==
  /\ req[r].pc = "fetch"
  /\ IF response.ok
     THEN req' = [req EXCEPT ![r].pc = "done", ![r].result = response]
     ELSE req' = [req EXCEPT ![r].pc = "text", ![r].response = response]
  /\ hist' = [hist EXCEPT ![r].outcomes = Append(@, response)]
  /\ UNCHANGED <<config, pipeline, priority, added>>

\* Variant: a raised transport call handled like a non-ok response.
FetchThrowsRetried(r) ==
  /\ req[r].pc = "fetch"
  /\ req' = [req EXCEPT ![r].pc = "text", ![r].response = Thrown]
  /\ hist' = [hist EXCEPT ![r].outcomes = Append(@, Thrown)]
  /\ UNCHANGED <<config, pipeline, priority, added>>

\* the transport call raised: `await request()` rethrows and nothing catches it
FetchThrows(r) ==
  /\ req[r].pc = "fetch"
  /\ req' = [req EXCEPT ![r].pc = "failed", ![r].error = TransportFailure]
  /\ hist' = [hist EXCEPT ![r].outcomes = Append(@, Thrown)]
  /\ UNCHANGED <<config, pipeline, priority, added>>

\* Variants of the retry test, used to show that the properties below depend on it:
\* one attempt short, one attempt long, and zero read as "no limit".
MayRetryOneShort(tries) == retryTimes > tries + 1
MayRetryInclusive(tries) == retryTimes >= tries
MayRetryZeroUnbounded(tries) == retryTimes > tries \/ retryTimes = 0

\* Variant: the attempt counter is the client's, shared by all its requests.
MayRetrySharedCounter(tries) == \A r \in Requests : retryTimes > req[r].tries

\* this._retryTimes > tries
MayRetry(tries) == retryTimes > tries

\* _requestAndRetry after the body text of a non-ok response is read
AfterText(r) ==
  /\ req[r].pc = "text"
  /\ LET response == req[r].response
         errorMessage == ErrorMessage(response, response.body)
     IN  IF MayRetry(req[r].tries)
         THEN RequestAndRetry(r, req[r], [hist[r] EXCEPT !.warnings = Append(@, errorMessage)], req[r].tries + 1)
         ELSE /\ req' = [req EXCEPT ![r].pc = "failed", ![r].error = errorMessage]
              /\ UNCHANGED hist
  /\ UNCHANGED <<config, pipeline, priority, added>>

\* ------------------------------------------------------------- construction
\* private _retryTimes = 3
DefaultRetryTimes == 3

\* A global of the hosting environment is undefined, defined without a fetch
\* function, or defined with one.
Globals == {"undefined", "nofetch", "fetch"}
Environments == [window : Globals, global : Globals, self : Globals]
\* window.location of the ambient page, when there is a window
PageLocation == <<"http:", "//", "page.example">>

\* options.host, as the pieces of the string: undefined, a bare host, a bare host
\* with a port, an origin, an origin under the managed sub-domain
NoHost == <<>>
HostOptions ==
  {NoHost, <<"api.example">>, <<"localhost:", "8000">>,
   <<"https:", "//", "api.example">>, <<"https:", "//", "x.astrox.app">>}
\* options.retryTimes, -1 when undefined
NoRetryTimes == 0 - 1
\* options.credentials: given is false when undefined, password is "" when missing
NoCredentials == [given |-> FALSE, name |-> "", password |-> ""]
CredentialOptions ==
  {NoCredentials, [given |-> TRUE, name |-> "alice", password |-> ""],
   [given |-> TRUE, name |-> "alice", password |-> "pw"]}

\* host.match(/^[a-z]+:/): the string starts with lowercase letters and a colon
MatchesScheme(h) == Head(h) \in {"http:", "https:", "localhost:"}

\* new URL(s): the protocol and hostname of an absolute URL, a TypeError otherwise
NewURL(s) ==
  IF s # <<>> /\ MatchesScheme(s)
  THEN [valid |-> TRUE, protocol |-> s[1],
        hostname |-> IF Len(s) >= 3 /\ s[2] = "//" THEN (IF s[3] = "localhost:" THEN "localhost" ELSE s[3]) ELSE ""]
  ELSE [valid |-> FALSE, protocol |-> "", hostname |-> ""]

\* API_SUB_DOMAIN, API_DOMAIN: hostname.endsWith('.astrox.app') is rewritten
EndsWithSubDomain(hostname) == hostname \in {"x.astrox.app"}
Rewritten(u) == [protocol |-> u.protocol, hostname |-> IF EndsWithSubDomain(u.hostname) THEN "astrox.app" ELSE u.hostname]

\* `${name}${password ? ':' + password : ''}`, "" when no credentials are given
CredentialString(c) ==
  IF ~c.given THEN ""
  ELSE IF c.password # "" THEN (IF c.name = "alice" /\ c.password = "pw" THEN "alice:pw" ELSE "other")
  ELSE c.name

\* Variant: each context is probed in turn for one that has a fetch function.
GetDefaultFetchProbingAll ==
  IF env.window = "fetch" THEN [thrown |-> FALSE, value |-> "window.fetch"]
  ELSE IF env.global = "fetch" THEN [thrown |-> FALSE, value |-> "global.fetch"]
  ELSE IF env.self = "fetch" THEN [thrown |-> FALSE, value |-> "self.fetch"]
  ELSE [thrown |-> TRUE, value |-> "not available"]

\* getDefaultFetch(): the fetch of the first global that is defined
GetDefaultFetch ==
  IF env.window # "undefined"
  THEN IF env.window = "fetch" THEN [thrown |-> FALSE, value |-> "window.fetch"]
       ELSE [thrown |-> TRUE, value |-> "browser context, window.fetch not present"]
  ELSE IF env.global # "undefined"
  THEN IF env.global = "fetch" THEN [thrown |-> FALSE, value |-> "global.fetch"]
       ELSE [thrown |-> TRUE, value |-> "Node.js context, global.fetch not available"]
  ELSE IF env.self = "fetch" THEN [thrown |-> FALSE, value |-> "self.fetch"]
  ELSE [thrown |-> TRUE, value |-> "not available"]

\* The host part of the constructor: the URL, or what is raised.
HostOf(o) ==
  IF o.host # NoHost
  THEN IF ~MatchesScheme(o.host) /\ env.window # "undefined"
       THEN NewURL(<<PageLocation[1], "//">> \o o.host)
       ELSE NewURL(o.host)
  ELSE IF env.window # "undefined" THEN NewURL(PageLocation)
       ELSE [valid |-> FALSE, protocol |-> "", hostname |-> "Must specify a host to connect to."]

NotConstructed == [state |-> "none", error |-> "none"]
Constructed == [state |-> "constructed", error |-> "none"]
Failed(error) == [state |-> "failed", error |-> error]
UnsetHost == [protocol |-> "", hostname |-> ""]

\* new HttpClient(options)
Construct ==
  /\ client.state = "none"
  /\ LET found == IF options.fetch THEN [thrown |-> FALSE, value |-> "options.fetch"] ELSE GetDefaultFetch
         url == HostOf(options)
     IN  IF found.thrown
         THEN /\ client' = Failed("HttpDefaultFetchError")
              /\ UNCHANGED <<retryTimes, credentials, fetchOptions, callOptions, host, fetchImpl>>
         ELSE IF ~url.valid
         THEN /\ client' = Failed(IF options.host = NoHost THEN "Must specify a host to connect to." ELSE "TypeError: Invalid URL")
              /\ UNCHANGED <<retryTimes, credentials, fetchOptions, callOptions, host, fetchImpl>>
         ELSE /\ client' = Constructed
              /\ fetchImpl' = found.value
              /\ fetchOptions' = options.fetchOptions
              /\ callOptions' = options.callOptions
              /\ host' = Rewritten(url)
              /\ retryTimes' = IF options.retryTimes # NoRetryTimes THEN options.retryTimes ELSE retryTimes
              /\ credentials' = CredentialString(options.credentials)
  /\ UNCHANGED <<env, options, pipeline, priority, req, hist, added>>

\* The options that give the client its present configuration, with an injected
\* transport primitive, in a hosting environment without a page.
ServerEnvironment == [window |-> "undefined", global |-> "nofetch", self |-> "undefined"]
CredentialOptionOf(c) ==
  IF c = "" THEN NoCredentials
  ELSE IF c = "alice:pw" THEN [given |-> TRUE, name |-> "alice", password |-> "pw"]
  ELSE [given |-> TRUE, name |-> c, password |-> ""]
ConstructedInjected ==
  /\ env = ServerEnvironment
  /\ options = [fetch |-> TRUE, host |-> <<host.protocol, "//", host.hostname>>, retryTimes |-> retryTimes,
                credentials |-> CredentialOptionOf(credentials),
                fetchOptions |-> fetchOptions, callOptions |-> callOptions]
  /\ fetchImpl = "options.fetch"
  /\ client = Constructed

\* ------------------------------------------------------------- specifications
Hosts == {[protocol |-> "https:", hostname |-> "api.example"]}
CredentialValues == {"", "alice:pw"}
\* Option bags a caller may configure: none, a field the client does not set, and
\* fields the client sets itself.
OptionBags ==
  {EmptyBag,
   [mode |-> "cors"],
   [mode |-> "cors", method |-> "PUT", headers |-> {<<"X-Client", <<"options">>>>}, body |-> <<"options">>]}
\* Transform objects as handed in: h declares a priority of its own, or none does.
DeclaredPriorities == {EmptyBag} \cup [{"h"} -> Priorities]

InitRequests ==
  /\ req = [r \in Requests |-> Idle]
  /\ hist = [r \in Requests |-> NoHistory]
  /\ added = <<>>

\* The retry loop: two call instances on one client, any retry budget.
Init ==
  /\ retryTimes \in RetryBudgets
  /\ credentials = ""
  /\ fetchOptions = EmptyBag
  /\ callOptions = EmptyBag
  /\ host \in Hosts
  /\ ConstructedInjected
  /\ pipeline = <<>>
  /\ priority = EmptyBag
  /\ InitRequests

Next ==
  \E r \in Requests :
    \/ HttpGet(r, "/status", <<>>)
    \/ \E body \in Bodies : HttpPost(r, "/tx", body)
    \/ PostSend(r)
    \/ \E response \in Responses : Respond(r, response)
    \/ FetchThrows(r)
    \/ AfterText(r)

Spec == Init /\ [][Next]_vars

\* The pipeline: any sequence of addTransform calls.
PipelineInit ==
  /\ retryTimes = 0
  /\ credentials = ""
  /\ fetchOptions = EmptyBag
  /\ callOptions = EmptyBag
  /\ host \in Hosts
  /\ ConstructedInjected
  /\ pipeline = <<>>
  /\ priority \in DeclaredPriorities
  /\ InitRequests

PipelineNext ==
  \E fn \in Transforms :
    \/ \E p \in Priorities : AddTransform(fn, p)
    \/ AddTransformDefault(fn)

PipelineSpec == PipelineInit /\ [][PipelineNext]_vars

\* Transforms and requests: registrations interleaved with the steps of call instances.
TransformSpecTransforms == {"f", "g"}
TransformSpecRequests == {"r1"}
TransformInit ==
  /\ retryTimes \in {0, 1}
  /\ credentials = ""
  /\ fetchOptions = EmptyBag
  /\ callOptions = EmptyBag
  /\ host \in Hosts
  /\ ConstructedInjected
  /\ pipeline = <<>>
  /\ priority = EmptyBag
  /\ InitRequests

\* What the transform at the head of the chain of r may resolve to.
Resolutions(r) ==
  IF req[r].pc = "pending" THEN {Nothing, Stamped(Head(req[r].chain), req[r].env)} ELSE {}

TransformNext ==
  \/ \E fn \in TransformSpecTransforms, p \in {0, 1} : AddTransform(fn, p)
  \/ \E r \in TransformSpecRequests :
       \/ HttpGet(r, "/status", <<>>)
       \/ \E body \in Bodies : HttpPost(r, "/tx", body)
       \/ TransformInvoke(r)
       \/ \E r2 \in Resolutions(r) : TransformResolve(r, r2)
       \/ TransformReject(r)
       \/ PostSend(r)
       \/ \E response \in Responses : Respond(r, response)
       \/ FetchThrows(r)
       \/ AfterText(r)

TransformSpec == TransformInit /\ [][TransformNext]_vars

\* Request building: one call instance on a client with any credentials and option
\* bags, with or without a registered transform.
BuildSpecRequests == {"r1"}
BuildInit ==
  /\ retryTimes \in {0, 1}
  /\ credentials \in CredentialValues
  /\ fetchOptions \in OptionBags
  /\ callOptions \in OptionBags
  /\ host \in Hosts
  /\ ConstructedInjected
  /\ \/ pipeline = <<>> /\ priority = EmptyBag /\ added = <<>>
     \/ pipeline = <<"f">> /\ priority = [x \in {"f"} |-> 0] /\ added = <<"f">>
  /\ req = [r \in Requests |-> Idle]
  /\ hist = [r \in Requests |-> NoHistory]

BuildNext ==
  \E r \in BuildSpecRequests :
    \/ \E endpoint \in Endpoints, body \in ParamObjects : HttpGet(r, endpoint, body)
    \/ \E endpoint \in Endpoints, body \in Bodies : HttpPost(r, endpoint, body)
    \/ TransformInvoke(r)
    \/ \E r2 \in Resolutions(r) : TransformResolve(r, r2)
    \/ TransformReject(r)
    \/ PostSend(r)
    \/ \E response \in Responses : Respond(r, response)
    \/ FetchThrows(r)
    \/ AfterText(r)

BuildSpec == BuildInit /\ [][BuildNext]_vars

\* Construction: any hosting environment and any options, then requests on the
\* client if the constructor returned one.
ConstructSpecRequests == {"r1"}
ConstructOptions ==
  [fetch : BOOLEAN, host : HostOptions, retryTimes : {NoRetryTimes, 0, 1},
   credentials : CredentialOptions, fetchOptions : {EmptyBag}, callOptions : {EmptyBag}]

ConstructInit ==
  /\ env \in Environments
  /\ options \in ConstructOptions
  /\ client = NotConstructed
  /\ fetchImpl = "none"
  /\ retryTimes = DefaultRetryTimes
  /\ credentials = ""
  /\ fetchOptions = EmptyBag
  /\ callOptions = EmptyBag
  /\ host = UnsetHost
  /\ pipeline = <<>>
  /\ priority = EmptyBag
  /\ InitRequests

ConstructNext ==
  \/ Construct
  \/ /\ client.state = "constructed"
     /\ \E r \in ConstructSpecRequests :
          \/ HttpGet(r, "/status", <<>>)
          \/ \E body \in Bodies : HttpPost(r, "/tx", body)
          \/ PostSend(r)
          \/ \E response \in Responses : Respond(r, response)
          \/ FetchThrows(r)
          \/ AfterText(r)

ConstructSpec == ConstructInit /\ [][ConstructNext]_vars

\* Registration while requests are in flight: two httpPost call instances and
\* addTransform in any interleaving, with transforms that resolve to a request of
\* their own and a server that answers ok.
SnapshotSpecTransforms == {"f", "g"}
SnapshotInit ==
  /\ retryTimes = 0
  /\ credentials = ""
  /\ fetchOptions = EmptyBag
  /\ callOptions = EmptyBag
  /\ host \in Hosts
  /\ ConstructedInjected
  /\ pipeline = <<>>
  /\ priority = EmptyBag
  /\ InitRequests

SnapshotNext ==
  \/ \E fn \in SnapshotSpecTransforms, p \in {0, 1} : AddTransform(fn, p)
  \/ \E r \in Requests :
       \/ \E body \in Bodies : HttpPost(r, "/tx", body)
       \/ TransformInvoke(r)
       \/ \E r2 \in Resolutions(r) \ {Nothing} : TransformResolve(r, r2)
       \/ PostSend(r)
       \/ Respond(r, Ok200)

SnapshotSpec == SnapshotInit /\ [][SnapshotNext]_vars

\* The retry loop with every await settling: a transport call that was started
\* is answered or raises, a body text that is awaited is read, and httpPost goes on
\* once its transforms are through.
Settle(r) ==
  \/ PostSend(r)
  \/ \E response \in Responses : Respond(r, response)
  \/ FetchThrows(r)
  \/ AfterText(r)
SettlingSpec == Init /\ [][Next]_vars /\ \A r \in Requests : WF_vars(Settle(r))

\* ------------------------------------------------------------- properties
NonOk(o) == o.completed /\ ~o.ok
AllNonOk(s) == \A i \in 1..Len(s) : NonOk(s[i])
Calls(r) == Len(hist[r].calls)
Outcomes(r) == hist[r].outcomes
Ended(r) == req[r].pc \in {"done", "failed"}
CarriesResponse(error, response) ==
  /\ error.kind = "ServerError"
  /\ error.status = response.status
  /\ error.statusText = response.statusText
  /\ error.body = response.body

\* C1: with a budget n >= 1, a request whose first k <= n transport calls are
\* answered non-ok goes on to call k+1, and when call k+1 is answered ok the request
\* has made exactly k+1 calls, has returned that response and calls no more.
C1_RetriesUntilOk ==
  \A r \in Requests :
    retryTimes >= 1 =>
      LET o == Outcomes(r)
          k == Len(o)
      IN  /\ (AllNonOk(o) /\ k <= retryTimes) =>
                /\ ~Ended(r)
                /\ req[r].pc = "fetch" => Calls(r) = k + 1
                /\ req[r].pc = "text" => Calls(r) = k
          /\ (k >= 1 /\ Last(o).ok /\ AllNonOk(SubSeq(o, 1, k - 1)) /\ k - 1 <= retryTimes) =>
                /\ req[r].pc = "done"
                /\ req[r].result = Last(o)
                /\ Calls(r) = k
\* budget 2, two failures then success: exactly 3 calls, success returned
C1_Witness ==
  \E r \in Requests :
    /\ retryTimes = 2
    /\ Outcomes(r) = <<Err500, Err503, Ok200>>
    /\ req[r].pc = "done"
    /\ Calls(r) = 3

\* C2: with a budget n >= 1, a request whose every transport call is answered
\* non-ok makes exactly n+1 calls and then raises the error built from the last
\* response (its status, status text and body text); it raises that error in no
\* other case.
C2_ExhaustsAfterBudgetPlusOne ==
  \A r \in Requests :
    retryTimes >= 1 =>
      LET o == Outcomes(r)
      IN  /\ AllNonOk(o) => Calls(r) <= retryTimes + 1
          /\ (AllNonOk(o) /\ Len(o) = retryTimes + 1 /\ req[r].pc # "text") =>
                /\ req[r].pc = "failed"
                /\ CarriesResponse(req[r].error, Last(o))
                /\ Calls(r) = retryTimes + 1
          /\ (req[r].pc = "failed" /\ req[r].error.kind = "ServerError") =>
                /\ AllNonOk(o)
                /\ Len(o) = retryTimes + 1
                /\ Calls(r) = retryTimes + 1
                /\ CarriesResponse(req[r].error, Last(o))
\* budget 2: three calls, the error carries the third response
C2_Witness ==
  \E r \in Requests :
    /\ retryTimes = 2
    /\ Outcomes(r) = <<Err500, Err500, Err503>>
    /\ req[r].pc = "failed"
    /\ req[r].error.status = 503
    /\ Calls(r) = 3

\* C3 as claimed: with budget 0 a request answered non-ok never raises the
\* retry-exhausted error and calls again.
C3_ZeroIsUnbounded ==
  \A r \in Requests :
    retryTimes = 0 =>
      /\ req[r].error.kind # "ServerError"
      /\ (Outcomes(r) # <<>> /\ AllNonOk(Outcomes(r)) /\ req[r].pc # "text") => Calls(r) = Len(Outcomes(r)) + 1
\* C3 amended: with budget 0 nothing is retried: a request makes one transport call;
\* answered non-ok it raises the error built from that response, answered ok it
\* returns the response.
C3_ZeroMeansNoRetry ==
  \A r \in Requests :
    retryTimes = 0 =>
      LET o == Outcomes(r)
      IN  /\ Calls(r) <= 1
          /\ (o # <<>> /\ NonOk(o[1]) /\ req[r].pc # "text") =>
                /\ req[r].pc = "failed"
                /\ CarriesResponse(req[r].error, o[1])
          /\ (o # <<>> /\ o[1].ok) => (req[r].pc = "done" /\ req[r].result = o[1])
C3_Witness ==
  \E r \in Requests :
    /\ retryTimes = 0
    /\ Outcomes(r) = <<Err503>>
    /\ req[r].pc = "failed"
    /\ req[r].error.kind = "ServerError"
    /\ Calls(r) = 1

\* C4: a transport call that raises is the last call of its request, whatever is
\* left of the budget, and the request fails with what the call raised.
C4_TransportFailureNotRetried ==
  \A r \in Requests :
    \A i \in 1..Len(Outcomes(r)) :
      ~Outcomes(r)[i].completed =>
        /\ i = Len(Outcomes(r))
        /\ Calls(r) = i
        /\ req[r].pc = "failed"
        /\ req[r].error.kind = "TransportFailure"
\* raised on the first call, and on a retry, with budget left
C4_Witness ==
  /\ retryTimes = 2
  /\ \E r \in Requests : Outcomes(r) = <<Thrown>> /\ req[r].pc = "failed"
  /\ \E r \in Requests : Outcomes(r) = <<Err500, Thrown>> /\ req[r].pc = "failed"

\* C5: after any sequence of addTransform calls, the same transform object
\* registered more than once included, every entry of the pipeline has a priority
\* greater than or equal to that of the entry after it.
C5_PipelineSorted ==
  \A j \in 1..(Len(pipeline) - 1) : PriorityOf(pipeline[j]) >= PriorityOf(pipeline[j + 1])

\* The position in `added` of the latest addTransform call that passed fn.
LastAdded(fn) == CHOOSE k \in 1..Len(added) : added[k] = fn /\ \A m \in (k + 1)..Len(added) : added[m] # fn
\* (fn.priority || 0) once the step is taken
PriorityAfter(fn) == IF fn \in DOMAIN priority' THEN priority'[fn] ELSE 0
RegisteredOnce == \A i, j \in 1..Len(added) : i # j => added[i] # added[j]

\* C6 as claimed: of two distinct transforms of equal priority in the pipeline, the
\* one added later stands before the one added earlier.
C6_LaterAddedPrecedes ==
  \A i, j \in 1..Len(pipeline) :
    (i < j /\ pipeline[i] # pipeline[j] /\ PriorityOf(pipeline[i]) = PriorityOf(pipeline[j]))
      => LastAdded(pipeline[i]) > LastAdded(pipeline[j])
\* C6 amended: addTransform places the transform at the first position whose entry
\* has a strictly lower priority (at the end when there is none), behind the entries
\* of equal priority in front of that position; so, in a pipeline built without
\* registering a transform object twice, of two distinct transforms of equal
\* priority the one added later stands after the one added earlier.
C6_LaterAddedFollows ==
  /\ [](RegisteredOnce =>
          \A i, j \in 1..Len(pipeline) :
            (i < j /\ PriorityOf(pipeline[i]) = PriorityOf(pipeline[j]))
              => LastAdded(pipeline[i]) < LastAdded(pipeline[j]))
  /\ [][Len(pipeline') = Len(pipeline) + 1 =>
          \E i \in 1..Len(pipeline') :
            /\ pipeline'[i] = Last(added')
            /\ \A j \in 1..Len(pipeline) :
                 pipeline[j] = IF j < i THEN pipeline'[j] ELSE pipeline'[j + 1]
            /\ \A j \in 1..(i - 1) : PriorityOf(pipeline[j]) >= PriorityAfter(pipeline'[i])
            /\ i <= Len(pipeline) => PriorityOf(pipeline[i]) < PriorityAfter(pipeline'[i])]_vars
\* f then g, both with priority 1: g stands after f
C6_Witness ==
  /\ added = <<"f", "g">>
  /\ pipeline = <<"f", "g">>
  /\ PriorityOf("f") = 1
  /\ PriorityOf("g") = 1

\* The request the chain of transforms has produced after its first n steps.
Produced(r, n) ==
  IF n = 0 THEN req[r].payload
  ELSE IF hist[r].resolved[n].nothing THEN hist[r].invoked[n].received
       ELSE hist[r].resolved[n].value

\* C7: when an httpPost request makes its first transport call, every entry of the
\* pipeline (as it was when httpPost was called) has been called exactly once, in
\* pipeline order; each transform received what the one before it resolved to, or
\* what that one had received when it resolved to nothing; and every attempt sends
\* the body of the request the last transform produced.
C7_TransformsThreaded ==
  \A r \in Requests :
    (req[r].kind = "POST" /\ Calls(r) >= 1) =>
      LET inv == hist[r].invoked
          n == Len(hist[r].snapshot)
      IN  /\ Len(inv) = n
          /\ Len(hist[r].resolved) = n
          /\ \A i \in 1..n : inv[i].fn = hist[r].snapshot[i]
          /\ \A i \in 1..n : inv[i].received = Produced(r, i - 1)
          /\ \A c \in 1..Calls(r) : hist[r].calls[c].init.body = Produced(r, n).body
\* f resolved to nothing and g to a request of its own; both attempts send g's body
C7_Witness ==
  \E r \in Requests :
    /\ req[r].kind = "POST"
    /\ hist[r].snapshot = <<"f", "g">>
    /\ Len(hist[r].resolved) = 2
    /\ hist[r].resolved[1].nothing
    /\ ~hist[r].resolved[2].nothing
    /\ Calls(r) = 2
    /\ hist[r].calls[2].init.body = <<"tx", "g">>

\* C8: no transform is called for an httpGet request, whatever the pipeline holds;
\* a transform is called only for an httpPost request.
C8_GetSkipsPipeline ==
  \A r \in Requests :
    /\ req[r].kind = "GET" => hist[r].invoked = <<>>
    /\ hist[r].invoked # <<>> => req[r].kind = "POST"
\* an httpGet issued with two transforms registered has returned
C8_Witness ==
  \E r \in Requests :
    /\ req[r].kind = "GET"
    /\ Len(hist[r].snapshot) = 2
    /\ req[r].pc = "done"

\* C9: no key of an option bag replaces a field the client sets: an httpGet call
\* carries the headers httpGet built (the Authorization header among them when
\* credentials are configured), an httpPost call carries the method and headers
\* httpPost built and the transformed body.
C9_OptionsNeverOverride ==
  \A r \in Requests :
    \A c \in 1..Calls(r) :
      LET init == hist[r].calls[c].init
      IN  /\ req[r].kind = "GET" =>
                /\ init.headers = req[r].headers
                /\ credentials # "" => \E h \in init.headers : h[1] = "Authorization"
          /\ req[r].kind = "POST" =>
                /\ init.method = "POST"
                /\ init.headers = req[r].payload.request.headers
                /\ init.body = req[r].transformed.body

\* The position of the entry with key k in the parameter object ps.
Position(ps, k) == CHOOSE j \in 1..Len(ps) : ps[j].key = k
\* u is <host> endpoint followed by one `key=value` per entry of ps, the first after
\* '?' and the others after '&', and nothing else.
ListsEveryEntry(u, endpoint, ps) ==
  /\ Len(u) = 2 + 4 * Len(ps)
  /\ u[1] = host
  /\ u[2] = endpoint
  /\ \A i \in 1..Len(ps) :
       /\ u[4 * i - 1] = IF i = 1 THEN "?" ELSE "&"
       /\ u[4 * i + 1] = "="
       /\ \E j \in 1..Len(ps) : ps[j].key = u[4 * i] /\ TemplateString(ps[j].value) = u[4 * i + 2]
  /\ \A j \in 1..Len(ps) : \E i \in 1..Len(ps) : u[4 * i] = ps[j].key

\* C10 as claimed: the url of an httpGet lists every entry of the parameter object
\* in its insertion order.
C10_QueryInInsertionOrder ==
  \A r \in Requests :
    \A c \in 1..Calls(r) :
      req[r].kind = "GET" =>
        LET u == hist[r].calls[c].url
            ps == hist[r].params
        IN  /\ ListsEveryEntry(u, req[r].endpoint, ps)
            /\ \A i \in 1..Len(ps) : u[4 * i] = ps[i].key
\* C10 amended: the url lists every entry in the enumeration order of the parameter
\* object: the keys that are array indices first, in ascending numeric order, then
\* the other keys in insertion order; an empty object adds nothing to the endpoint.
C10_QueryInEnumerationOrder ==
  \A r \in Requests :
    \A c \in 1..Calls(r) :
      req[r].kind = "GET" =>
        LET u == hist[r].calls[c].url
            ps == hist[r].params
        IN  /\ ListsEveryEntry(u, req[r].endpoint, ps)
            /\ \A i1, i2 \in 1..Len(ps) :
                 i1 < i2 =>
                   LET k1 == u[4 * i1]
                       k2 == u[4 * i2]
                   IN  /\ (k1 \in IndexKeys /\ k2 \in IndexKeys) => KeyNumber[k1] < KeyNumber[k2]
                       /\ k1 \notin IndexKeys =>
                            (k2 \notin IndexKeys /\ Position(ps, k1) < Position(ps, k2))
\* {b: 1, 1: 2} is requested as /status?1=2&b=1, {a: 1, b: 2} as /status?a=1&b=2
C10_Witness ==
  /\ \E r \in Requests :
       /\ hist[r].params = <<[key |-> "b", value |-> 1], [key |-> "1", value |-> 2]>>
       /\ Calls(r) >= 1
       /\ hist[r].calls[1].url = <<host, "/status", "?", "1", "=", "2", "&", "b", "=", "1">>
  /\ \E r \in Requests : req[r].kind = "GET"


Provides(g) == g = "fetch"
Defined(g) == g # "undefined"
NoRequestIssued == \A r \in Requests : req[r].pc = "idle" /\ Calls(r) = 0
\* C11 as stated: without an injected primitive the constructor yields the fetch of
\* the first of window, global, self that provides one, and raises
\* HttpDefaultFetchError only when none of the three provides one.
C11_FirstProviding ==
  (client.state # "none" /\ ~options.fetch) =>
    IF Provides(env.window) \/ Provides(env.global) \/ Provides(env.self)
    THEN /\ client.error # "HttpDefaultFetchError"
         /\ client.state = "constructed" =>
              fetchImpl = IF Provides(env.window) THEN "window.fetch"
                          ELSE IF Provides(env.global) THEN "global.fetch" ELSE "self.fetch"
    ELSE client = Failed("HttpDefaultFetchError") /\ NoRequestIssued
\* C11 amended: without an injected primitive the constructor looks only at the
\* first of window, global, self that is defined: it yields that context's fetch if
\* it has one and raises HttpDefaultFetchError otherwise, also when a later context
\* provides one, and when none is defined; the error is raised by the constructor,
\* so no request is ever issued; an injected primitive is used as it is.
C11_FirstDefined ==
  /\ (client.state # "none" /\ ~options.fetch) =>
       LET first == IF Defined(env.window) THEN "window"
                    ELSE IF Defined(env.global) THEN "global"
                    ELSE IF Defined(env.self) THEN "self" ELSE "none"
           has == /\ first # "none"
                  /\ Provides(IF first = "window" THEN env.window
                              ELSE IF first = "global" THEN env.global ELSE env.self)
       IN  IF has
           THEN /\ client.error # "HttpDefaultFetchError"
                /\ client.state = "constructed" =>
                     fetchImpl = IF first = "window" THEN "window.fetch"
                                 ELSE IF first = "global" THEN "global.fetch" ELSE "self.fetch"
           ELSE client = Failed("HttpDefaultFetchError")
  /\ (client.state = "constructed" /\ options.fetch) => fetchImpl = "options.fetch"
  /\ client.state # "constructed" => NoRequestIssued
\* no window, a global without fetch, a worker scope with fetch: the constructor
\* raises although self.fetch exists
C11_Witness ==
  /\ ~options.fetch
  /\ env = [window |-> "undefined", global |-> "nofetch", self |-> "fetch"]
  /\ client = Failed("HttpDefaultFetchError")
  /\ NoRequestIssued


RealSchemes == {"http:", "https:"}
BareHost(h) == h # NoHost /\ Head(h) \notin RealSchemes
HostResolved == client.state # "none" /\ client.error # "HttpDefaultFetchError"
\* C12: a client is constructed only with a resolved absolute host: no host and no
\* window fails with 'Must specify a host to connect to.'; a bare host without a
\* window fails; a bare host with a window is qualified with the page's scheme; a
\* host with a scheme is the origin as given.
C12_AbsoluteHostOnly ==
  /\ client.state = "constructed" => (host.protocol \in RealSchemes /\ host.hostname # "")
  /\ HostResolved =>
       /\ (options.host = NoHost /\ ~Defined(env.window)) =>
            client = Failed("Must specify a host to connect to.")
       /\ (BareHost(options.host) /\ ~Defined(env.window)) => client.state = "failed"
       /\ (BareHost(options.host) /\ Defined(env.window)) =>
            /\ client.state = "constructed"
            /\ host.protocol = PageLocation[1]
            /\ <<host.hostname>> \in {<<"api.example">>, <<"localhost">>}
       /\ (options.host # NoHost /\ ~BareHost(options.host)) =>
            /\ client.state = "constructed"
            /\ <<host.protocol, "//", host.hostname>> = options.host


Warnings(r) == hist[r].warnings
\* C13 as stated: after attempt n of a request is answered non-ok, attempt n+1 is
\* started, with a warning, iff n <= retryTimes or retryTimes = 0; otherwise the
\* retry-exhausted error is raised without another transport call.
C13_RetryGuardInclusive ==
  [][\A r \in Requests :
       (req[r].pc = "text" /\ req'[r] # req[r]) =>
         LET n == req[r].tries
         IN  IF n <= retryTimes \/ retryTimes = 0
             THEN /\ req'[r].pc = "fetch"
                  /\ req'[r].tries = n + 1
                  /\ Calls(r)' = Calls(r) + 1
                  /\ Len(Warnings(r)') = Len(Warnings(r)) + 1
             ELSE /\ req'[r].pc = "failed"
                  /\ req'[r].error = ExceededError
                  /\ Calls(r)' = Calls(r)]_vars
\* C13 amended: after attempt n of a request is answered non-ok, attempt n+1 is
\* started, with a warning that carries the response, iff n < retryTimes; otherwise
\* the request raises the 'Server returned an error' error built from that response,
\* without a warning and without another transport call.
C13_RetryGuardStrict ==
  [][\A r \in Requests :
       (req[r].pc = "text" /\ req'[r] # req[r]) =>
         LET n == req[r].tries
         IN  IF n < retryTimes
             THEN /\ req'[r].pc = "fetch"
                  /\ req'[r].tries = n + 1
                  /\ Calls(r)' = Calls(r) + 1
                  /\ Len(Warnings(r)') = Len(Warnings(r)) + 1
                  /\ CarriesResponse(Last(Warnings(r)'), req[r].response)
             ELSE /\ req'[r].pc = "failed"
                  /\ CarriesResponse(req'[r].error, req[r].response)
                  /\ Calls(r)' = Calls(r)
                  /\ Warnings(r)' = Warnings(r)]_vars
\* a request that warned and retried retryTimes >= 1 times and then raised on the
\* non-ok answer to attempt n = retryTimes
C13_Witness ==
  \E r \in Requests :
    /\ retryTimes >= 1
    /\ req[r].pc = "failed"
    /\ req[r].tries = retryTimes
    /\ Len(Warnings(r)) = retryTimes
    /\ req[r].error.kind = "ServerError"


InFlight(r) == Calls(r) - Len(Outcomes(r))
\* C14: within one request at most one transport call is in flight at any time;
\* a transport call is started only when every earlier call of the request has
\* completed with a non-ok response, and it is attempt number (calls so far), so
\* the attempts are sequential and their ordinals go up by one.
C14_AttemptsSequential ==
  /\ [](\A r \in Requests :
          /\ InFlight(r) \in {0, 1}
          /\ InFlight(r) = 1 <=> req[r].pc = "fetch"
          /\ req[r].pc = "fetch" => req[r].tries = Calls(r) - 1)
  /\ [][\A r \in Requests :
          Calls(r)' # Calls(r) =>
            /\ Calls(r)' = Calls(r) + 1
            /\ InFlight(r) = 0
            /\ AllNonOk(Outcomes(r))
            /\ req'[r].tries = Calls(r)]_vars
\* the third attempt of a request in flight, after two that were answered non-ok
C14_Witness ==
  \E r \in Requests :
    /\ req[r].pc = "fetch"
    /\ req[r].tries = 2
    /\ Calls(r) = 3
    /\ Len(Outcomes(r)) = 2


\* What a call instance that has ended must have come to, given only the budget
\* and how its own transport calls ended.
EndedByOwnOutcomes(r) ==
  LET o == Outcomes(r)
  IN  /\ o # <<>>
      /\ Calls(r) = Len(o)
      /\ Len(o) <= retryTimes + 1
      /\ AllNonOk(SubSeq(o, 1, Len(o) - 1))
      /\ req[r].tries = Len(o) - 1
      /\ IF Last(o) = Thrown
         THEN req[r].pc = "failed" /\ req[r].error = TransportFailure
         ELSE IF Last(o).ok
         THEN req[r].pc = "done" /\ req[r].result = Last(o)
         ELSE /\ req[r].pc = "failed"
              /\ CarriesResponse(req[r].error, Last(o))
              /\ Len(o) = retryTimes + 1
\* C15: with several requests interleaving on one client, each keeps its own attempt
\* counter, endpoint and body: a step of one request changes nothing of another,
\* every transport call of a request goes to that request's endpoint, and the
\* number of calls and the outcome of a request that ended are determined by the
\* budget and the answers to its own calls.
C15_RequestsIndependent ==
  /\ [](\A r \in Requests :
          /\ Ended(r) => EndedByOwnOutcomes(r)
          /\ \A c \in 1..Calls(r) :
               /\ hist[r].calls[c].url[2] = req[r].endpoint
               /\ req[r].kind = "POST" => hist[r].calls[c].init["body"] = req[r].payload.body)
  /\ [][\A r \in Requests :
          /\ (req'[r] # req[r] \/ hist'[r] # hist[r]) =>
               \A s \in Requests \ {r} : req'[s] = req[s] /\ hist'[s] = hist[s]
          /\ req[r].pc # "idle" =>
               /\ req'[r].kind = req[r].kind
               /\ req'[r].endpoint = req[r].endpoint
               /\ req'[r].payload = req[r].payload]_vars
\* one request has used up a budget of 2 and raised while the other, to another
\* endpoint, is waiting for the answer to its second attempt
C15_Witness ==
  \E r, s \in Requests :
    /\ r # s
    /\ req[r].pc = "failed" /\ req[r].tries = 2 /\ Calls(r) = 3
    /\ req[s].pc = "fetch" /\ req[s].tries = 1 /\ Calls(s) = 2
    /\ req[r].endpoint # req[s].endpoint


\* C16: httpGet, httpPost, the application of transforms and the retry loop leave
\* the configuration as it is: a step of a request changes neither the pipeline
\* (its entries, their order, their priorities) nor the host, the credentials, the
\* retry budget or the options, whatever the request comes to; the pipeline changes
\* only in a step of addTransform.
C16_RequestsLeaveConfiguration ==
  [][/\ (req' # req \/ hist' # hist) =>
          /\ pipeline' = pipeline
          /\ priority' = priority
          /\ config' = config
     /\ (pipeline' # pipeline \/ priority' # priority) =>
          /\ Len(added') = Len(added) + 1
          /\ req' = req
          /\ hist' = hist
          /\ config' = config]_vars
\* a POST that went through two transforms, was retried and has ended, on a client
\* whose pipeline is still the one the request started with
C16_Witness ==
  \E r \in Requests :
    /\ Ended(r)
    /\ req[r].kind = "POST"
    /\ Len(hist[r].resolved) = 2
    /\ Calls(r) = 2
    /\ pipeline = hist[r].snapshot
    /\ Len(pipeline) = 2


EntryGuard(r) == req[r].tries > retryTimes /\ retryTimes # 0
InRetryLoop(r) ==
  \/ req[r].pc \in {"fetch", "text", "done"}
  \/ req[r].pc = "failed" /\ req[r].error.kind # "TransformFailure"
\* C17 as stated: the entry guard of _requestAndRetry (tries > budget and budget # 0)
\* never holds, every request makes at least one transport call, the 'Exceeded
\* configured limit' error is never raised, and a request that used up the budget
\* raises the 'Server returned an error' message of its last response.
C17_AlwaysOneCall ==
  \A r \in Requests :
    /\ ~EntryGuard(r)
    /\ req[r].error # ExceededError
    /\ Ended(r) => Calls(r) >= 1
    /\ (req[r].pc = "failed" /\ Outcomes(r) # <<>> /\ NonOk(Last(Outcomes(r)))) =>
         CarriesResponse(req[r].error, Last(Outcomes(r)))
\* C17 amended: the entry guard never holds, so every request that enters
\* _requestAndRetry (every httpGet, and every httpPost whose transforms all resolved)
\* makes at least one transport call; the 'Exceeded configured limit' error is never
\* raised, and a request that used up the budget raises the 'Server returned an
\* error' message of its last response. An httpPost that ends without a transport
\* call is one whose transform rejected.
C17_OneCallOnceInLoop ==
  \A r \in Requests :
    /\ ~EntryGuard(r)
    /\ req[r].error # ExceededError
    /\ InRetryLoop(r) => Calls(r) >= 1
    /\ (Ended(r) /\ Calls(r) = 0) => (req[r].kind = "POST" /\ req[r].error.kind = "TransformFailure")
    /\ (req[r].pc = "failed" /\ Outcomes(r) # <<>> /\ NonOk(Last(Outcomes(r)))) =>
         /\ CarriesResponse(req[r].error, Last(Outcomes(r)))
         /\ req[r].tries = retryTimes
\* a POST through one transform that was retried once under budget 1, entered
\* _requestAndRetry with tries = budget, and raised the message of its second answer
C17_Witness ==
  \E r \in Requests :
    /\ retryTimes = 1
    /\ req[r].kind = "POST"
    /\ Len(hist[r].invoked) = 1
    /\ req[r].pc = "failed"
    /\ req[r].tries = 1
    /\ Outcomes(r) = <<Err500, Err503>>
    /\ CarriesResponse(req[r].error, Err503)


\* C18: for every retry budget n >= 0, n = 0 included, a request whose transport
\* calls all complete ends (returns a response or raises) and has made at most
\* n + 1 transport calls; for no budget does a request retry forever.
C18_TerminatesWithinBudget ==
  /\ [](\A r \in Requests : Calls(r) <= retryTimes + 1)
  /\ \A r \in Requests : (req[r].pc # "idle") ~> Ended(r)
\* budget 0: both requests have ended after one transport call each, one with the
\* response and one raising
C18_Witness ==
  \E r, s \in Requests :
    /\ retryTimes = 0
    /\ req[r].pc = "done" /\ Calls(r) = 1
    /\ req[s].pc = "failed" /\ Calls(s) = 1 /\ req[s].error.kind = "ServerError"


InvokedTransforms(r) == [i \in 1..Len(hist[r].invoked) |-> hist[r].invoked[i].fn]
IsPrefix(s, t) == Len(s) <= Len(t) /\ \A i \in 1..Len(s) : s[i] = t[i]
\* C19: the transforms applied to an httpPost are the entries the pipeline holds, in
\* its order, at the moment the request begins applying transforms: they are called
\* in that order, all of them before the transport call; a registration made while
\* the request is under way changes nothing of it, whatever the priority; and a
\* request that begins afterwards takes the pipeline with the new entry in it.
C19_PipelineFixedAtStart ==
  /\ [](\A r \in Requests :
          /\ IsPrefix(InvokedTransforms(r), hist[r].snapshot)
          /\ Calls(r) >= 1 => InvokedTransforms(r) = hist[r].snapshot)
  /\ [][\A r \in Requests :
          /\ (req[r].pc = "idle" /\ req'[r].pc # "idle") =>
               /\ hist'[r].snapshot = pipeline
               /\ \A k \in 1..Len(added) : \E i \in 1..Len(pipeline) : pipeline[i] = added[k]
          /\ (req[r].pc # "idle" /\ Len(added') > Len(added)) =>
               /\ hist'[r] = hist[r]
               /\ req'[r] = req[r]]_vars
\* f is registered, a request begins, g is registered in front of f while the
\* request waits for f, the request goes out with f alone; a second request begins
\* after that and goes out with g and f
C19_Witness ==
  \E r, s \in Requests :
    /\ pipeline = <<"g", "f">>
    /\ added = <<"f", "g">>
    /\ hist[r].snapshot = <<"f">>
    /\ InvokedTransforms(r) = <<"f">>
    /\ req[r].pc = "done"
    /\ hist[s].snapshot = <<"g", "f">>
    /\ InvokedTransforms(s) = <<"g", "f">>
    /\ req[s].pc = "done"


FailedInTransform(r) == req[r].error.kind = "TransformFailure"
\* C20: when a transform of the pipeline rejects while an httpPost is being
\* transformed, the request fails with the error of that transform, no later
\* transform of the pipeline is called, and no transport call is made for the
\* request, then or later.
C20_RejectionEndsRequest ==
  /\ [](\A r \in Requests :
          FailedInTransform(r) =>
            /\ req[r].pc = "failed"
            /\ Calls(r) = 0
            /\ Len(hist[r].invoked) = Len(hist[r].resolved) + 1
            /\ req[r].error = TransformFailure(Last(hist[r].invoked).fn))
  /\ [][\A r \in Requests :
          /\ (req[r].pc = "pending" /\ req'[r].pc # "pending" /\ hist'[r].resolved = hist[r].resolved) =>
               /\ req'[r].pc = "failed"
               /\ req'[r].error = TransformFailure(Head(req[r].chain))
               /\ hist'[r] = hist[r]
          /\ FailedInTransform(r) => (req'[r] = req[r] /\ hist'[r] = hist[r])]_vars
\* a pipeline of two: the first transform rejected, the second was never called
\* and nothing was sent
C20_Witness ==
  \E r \in Requests :
    /\ Len(hist[r].snapshot) = 2
    /\ FailedInTransform(r)
    /\ req[r].error.body = hist[r].snapshot[1]
    /\ Len(hist[r].invoked) = 1
    /\ Calls(r) = 0

====
